---- MODULE Spec2Model ----
(***************************************************************************)
(* Model of the status-charting plugin of mast web                         *)
(* (mast/datapower/status/docroot/plugin.js).                              *)
(*                                                                         *)
(* The plugin is one closure run when GET /config/status answers.  Its     *)
(* state lives in the DOM (value of the statusCharting button, the checked *)
(* provider checkboxes, the chart containers), in window.charts,           *)
(* window.timeout, environment.appliances, the browser's timer table and   *)
(* the POST /status requests in flight.  JavaScript is single threaded:    *)
(* every handler below runs to completion, so each is one action.          *)
(* $.publish is jQuery's trigger on a private object: subscribers run      *)
(* synchronously, inside the publishing handler.                           *)
(***************************************************************************)
EXTENDS Naturals, Integers, Sequences, FiniteSets, Bags, TLC

\* ------------------------------------------------------------------------
\* Bounds of the model
\* ------------------------------------------------------------------------
MaxChains == 2        \* poll chains (requests in flight plus pending timers) alive at once
MaxOverrun == 0       \* labels a misaligned chart may come to hold beyond the cap
MaxTime == 4          \* the responses of the Series specification are stamped 1..MaxTime
MaxCap == 3           \* caps of the Series specification are drawn from 1..MaxCap

\* config.charts.datapoints of the main specification
ConfigDatapoints == 1

Providers == {"cpu", "mem"}
\* order of the provider checkboxes inside #status_top
ProviderOrder == <<"cpu", "mem">>
\* the hostnames, in the order the appliances get added
DeviceOrder == <<"A", "B">>
Times == 1..MaxTime
TimerIds == 1..MaxChains
\* window.timeout before the first setTimeout
undefined == 0

\* The pages explored: one with two provider checkboxes and a fleet of one
\* appliance, one with one checkbox and a fleet of two
Pages == {[boxes |-> {"cpu", "mem"}, fleet |-> 1], [boxes |-> {"cpu"}, fleet |-> 2]}

VARIABLES
    boxes,         \* the provider checkboxes of #status_top
    fleet,         \* the number of appliances the operator can add
    clock,         \* the server's clock: the time field of its next response
    datapoints,    \* parseInt(config.charts.datapoints), the cap of every Series
    toggle,        \* value attribute of input[name='statusCharting']
    appliances,    \* environment.appliances, as the sequence of hostnames
    selected,      \* checked provider checkboxes of #status_top
    charts,        \* window.charts: provider -> Chart (data.labels, data.datasets)
    containers,    \* providers with a #status_<provider>_container element
    timeout,       \* window.timeout
    pending,       \* timer handles set and neither fired nor cleared
    inflight,      \* POST /status requests awaiting their answer
    hist,          \* history: per provider, the samples committed since its chart was built
    orphans,       \* history: success callbacks run since the last click, counted while Idle
    failed,        \* history: the handler that ran last was that of a failed request
    issued         \* history: the handler that ran last called get_data with the button reading "Stop"

vars == <<boxes, fleet, clock, datapoints, toggle, appliances, selected, charts, containers,
          timeout, pending, inflight, hist, orphans, failed, issued>>

\* ------------------------------------------------------------------------
\* Helpers
\* ------------------------------------------------------------------------
Range(s) == {s[i] : i \in 1..Len(s)}

Min(a, b) == IF a < b THEN a ELSE b

\* the last n elements of s
LastN(s, n) == SubSeq(s, Len(s) - Min(n, Len(s)) + 1, Len(s))

\* Array.prototype.shift: drops the first element, no-op on an empty array
shift(s) == IF s = <<>> THEN s ELSE Tail(s)

\* rosters: the appliance list grows at its end and shrinks from its end
Rosters == {SubSeq(DeviceOrder, 1, n) : n \in 0..Len(DeviceOrder)}

EmptyHist == [samples |-> <<>>, clean |-> TRUE]

\* ------------------------------------------------------------------------
\* plugin.js
\* ------------------------------------------------------------------------
get_selected_providers(sel) == SelectSeq(ProviderOrder, LAMBDA p : p \in sel)

\* new Chart(ctx, {data: {labels: [], datasets: one per appliance}})
initialize_chart(provider, apps) ==
    [labels |-> <<>>,
     datasets |-> [i \in 1..Len(apps) |-> [label |-> apps[i], data |-> <<>>]]]

\* the initial value with the test of startonload inverted
initialState_inverted(sol) == IF sol THEN "Start" ELSE "Stop"

\* the value given to the button when the plugin loads:
\* config.charts.startonload == "true" makes it "Stop", anything else "Start"
initialState(sol) == IF sol THEN "Stop" ELSE "Start"

Init ==
    /\ \E page \in Pages : boxes = page.boxes /\ fleet = page.fleet
    /\ clock = 1
    /\ datapoints = ConfigDatapoints
    /\ \E startonload \in BOOLEAN : toggle = initialState(startonload)
    /\ appliances = <<>>
    /\ selected \in SUBSET boxes
    /\ charts = <<>>
    /\ containers = {}
    /\ timeout = undefined
    /\ pending = {}
    /\ inflight = EmptyBag
    /\ hist = [p \in Providers |-> EmptyHist]
    /\ orphans = 0
    /\ failed = FALSE
    /\ issued = FALSE

\* a request body that names every provider, checked or not
status_request_all(apps, sel) ==
    [appliances |-> apps, providers |-> ProviderOrder]

\* the request body of POST /status built by get_data (credentials and
\* check_hostname are carried along and play no part here)
status_request(apps, sel) ==
    [appliances |-> apps, providers |-> get_selected_providers(sel)]

\* get_data: builds the request from the roster and the selection of this
\* moment and posts it; fl is the bag of requests in flight
get_data(fl, apps, sel) == fl (+) SetToBag({status_request(apps, sel)})

\* initialize_all without the test of the button's value
initialize_all_always(tg, apps, sel, ch, cont, fl) ==
    IF apps = <<>>
    THEN [ran |-> FALSE, charts |-> ch, containers |-> cont, inflight |-> fl]
    ELSE [ran |-> TRUE,
          charts |-> [p \in sel |-> initialize_chart(p, apps)],
          containers |-> (cont \ {p \in DOMAIN ch : p \notin sel}) \cup sel,
          inflight |-> get_data(fl, apps, sel)]

\* initialize_all without the window.charts = {} before the rebuild
initialize_all_keep(tg, apps, sel, ch, cont, fl) ==
    IF tg = "Start" \/ apps = <<>>
    THEN [ran |-> FALSE, charts |-> ch, containers |-> cont, inflight |-> fl]
    ELSE [ran |-> TRUE,
          charts |-> [p \in DOMAIN ch \cup sel |->
                        IF p \in sel THEN initialize_chart(p, apps) ELSE ch[p]],
          containers |-> (cont \ {p \in DOMAIN ch : p \notin sel}) \cup sel,
          inflight |-> get_data(fl, apps, sel)]

\* initialize_all: returns early while the button reads "Start" or the roster
\* is empty; otherwise drops every chart, builds one per selected provider
\* and calls get_data
initialize_all(tg, apps, sel, ch, cont, fl) ==
    IF tg = "Start" \/ apps = <<>>
    THEN [ran |-> FALSE, charts |-> ch, containers |-> cont, inflight |-> fl]
    ELSE [ran |-> TRUE,
          charts |-> [p \in sel |-> initialize_chart(p, apps)],
          containers |-> (cont \ {p \in DOMAIN ch : p \notin sel}) \cup sel,
          inflight |-> get_data(fl, apps, sel)]

\* add_data, the body run for one provider up to the eviction test:
\* labels.push(data.time), then one push per entry of data.appliances.
\* Reading datasets[i] past the chart's datasets, or data[provider][i] when
\* the response has no such key, throws a TypeError; the pushes made before
\* it stay.
push_sample(chart, provider, data) ==
    LET napps == Len(data.appliances)
        firstBad == IF provider \notin DOMAIN data.byProvider
                    THEN 1 ELSE Len(chart.datasets) + 1
        threw == napps >= firstBad
        pushed == IF threw THEN firstBad - 1 ELSE napps
    IN [threw |-> threw,
        chart |-> [labels |-> Append(chart.labels, data.time),
                   datasets |-> [i \in 1..Len(chart.datasets) |->
                       IF i <= pushed
                       THEN [chart.datasets[i] EXCEPT
                               !.data = Append(@, data.byProvider[provider][i])]
                       ELSE chart.datasets[i]]]]

\* evict with the newest sample dropped instead of the oldest
evict_newest(chart, cap) ==
    IF Len(chart.datasets[1].data) > cap
    THEN [labels |-> SubSeq(chart.labels, 1, Len(chart.labels) - 1),
          datasets |-> [i \in 1..Len(chart.datasets) |->
                          [chart.datasets[i] EXCEPT
                             !.data = SubSeq(@, 1, Len(@) - 1)]]]
    ELSE chart

\* add_data, the eviction: when datasets[0] holds more than datapoints
\* values, shift the labels and every dataset once
evict(chart, cap) ==
    IF Len(chart.datasets[1].data) > cap
    THEN [labels |-> shift(chart.labels),
          datasets |-> [i \in 1..Len(chart.datasets) |->
                          [chart.datasets[i] EXCEPT !.data = shift(@)]]]
    ELSE chart

\* add_data, the loop over the selected providers, from the k-th on; done
\* counts the providers whose body ran to its end
RECURSIVE add_data_from(_, _, _, _, _)
add_data_from(provs, k, ch, data, cap) ==
    IF k > Len(provs) THEN [charts |-> ch, threw |-> FALSE, done |-> k - 1]
    ELSE IF provs[k] \notin DOMAIN ch
    THEN [charts |-> ch, threw |-> TRUE, done |-> k - 1]
    ELSE LET r == push_sample(ch[provs[k]], provs[k], data)
         IN IF r.threw
            THEN [charts |-> [ch EXCEPT ![provs[k]] = r.chart],
                  threw |-> TRUE, done |-> k - 1]
            ELSE add_data_from(provs, k + 1,
                               [ch EXCEPT ![provs[k]] = evict(r.chart, cap)], data, cap)

add_data(data, sel, ch, cap) == add_data_from(get_selected_providers(sel), 1, ch, data, cap)

\* setTimeout: the browser hands out a handle that no pending timer has
setTimeout(pend) == CHOOSE id \in TimerIds \ pend : \A j \in TimerIds \ pend : id <= j

\* reschedule without the clearTimeout
reschedule_noclear(pend, to) ==
    [pending |-> pend \cup {setTimeout(pend)}, timeout |-> setTimeout(pend)]

\* the rescheduling of the success callback: clearTimeout(window.timeout)
\* when it is defined, then window.timeout = setTimeout(get_data, interval)
reschedule(pend, to) ==
    LET cleared == IF to # undefined THEN pend \ {to} ELSE pend
        id == setTimeout(cleared)
    IN [pending |-> cleared \cup {id}, timeout |-> id]

\* success callback without the test of the button's value
success_callback_unguarded(tg, sel, ch, pend, to, data, cap) ==
    LET r == add_data(data, sel, ch, cap)
    IN IF r.threw
       THEN [charts |-> r.charts, pending |-> pend, timeout |-> to,
             threw |-> TRUE, done |-> r.done]
       ELSE [charts |-> r.charts, pending |-> reschedule(pend, to).pending,
             timeout |-> reschedule(pend, to).timeout,
             threw |-> FALSE, done |-> r.done]

\* the success callback of $.ajax: only while the button reads "Stop" it
\* commits the response and reschedules; an exception of add_data leaves
\* the callback before the rescheduling
success_callback(tg, sel, ch, pend, to, data, cap) ==
    IF tg = "Stop"
    THEN LET r == add_data(data, sel, ch, cap)
         IN IF r.threw
            THEN [charts |-> r.charts, pending |-> pend, timeout |-> to,
                  threw |-> TRUE, done |-> r.done]
            ELSE [charts |-> r.charts, pending |-> reschedule(pend, to).pending,
                  timeout |-> reschedule(pend, to).timeout,
                  threw |-> FALSE, done |-> r.done]
    ELSE [charts |-> ch, pending |-> pend, timeout |-> to, threw |-> FALSE, done |-> 0]

\* an error callback that retries the request
error_callback_retry(fl, pend, to, apps, sel) ==
    [inflight |-> get_data(fl, apps, sel), pending |-> pend, timeout |-> to]

\* $.ajax is given no error callback: a failed request runs no code
error_callback(fl, pend, to, apps, sel) ==
    [inflight |-> fl, pending |-> pend, timeout |-> to]

\* a click handler whose stop aborts the requests in flight
click_aborting(tg, apps, sel, ch, cont, fl) ==
    IF tg = "Start"
    THEN [toggle |-> "Stop", sync |-> initialize_all(tg, apps, sel, ch, cont, fl)]
    ELSE [toggle |-> "Start",
          sync |-> [ran |-> FALSE, charts |-> ch, containers |-> cont, inflight |-> EmptyBag]]

\* the click handler of the statusCharting button: on "Start" it publishes
\* startCharting, whose subscriber initialize_all runs before the value is
\* set to "Stop"; on "Stop" it only sets the value to "Start"
click(tg, apps, sel, ch, cont, fl) ==
    IF tg = "Start"
    THEN [toggle |-> "Stop", sync |-> initialize_all(tg, apps, sel, ch, cont, fl)]
    ELSE [toggle |-> "Start",
          sync |-> [ran |-> FALSE, charts |-> ch, containers |-> cont, inflight |-> fl]]

\* ------------------------------------------------------------------------
\* The server: a response echoes the request's appliances and carries, per
\* provider key, one value per appliance in request order.  A value is
\* written as the hostname it was measured on.  A malformed response lacks
\* the key of one requested provider.
\* ------------------------------------------------------------------------
ResponseKeys(req) ==
    {Range(req.providers)} \cup {Range(req.providers) \ {p} : p \in Range(req.providers)}

Responses(req, times) ==
    {[time |-> t, appliances |-> req.appliances,
      byProvider |-> [p \in K |-> req.appliances]] : t \in times, K \in ResponseKeys(req)}

\* the hostnames a chart was built with
devs(chart) == [i \in 1..Len(chart.datasets) |-> chart.datasets[i].label]

\* the response lacks data for a selected provider, or its device count is
\* not that of a selected provider's chart
Malformed(data, sel, ch) ==
    \E p \in sel : \/ p \notin DOMAIN data.byProvider
                   \/ p \in DOMAIN ch /\ Len(data.appliances) # Len(ch[p].datasets)

\* history of the commits: a sample is well shaped for a chart when it has
\* the chart's device order and a value list for the provider
WellShaped(data, chart, p) ==
    p \in DOMAIN data.byProvider /\ data.appliances = devs(chart)

CommitHist(h, data, sel, ch, r, cap) ==
    LET provs == get_selected_providers(sel)
        full == {provs[k] : k \in 1..r.done}
        broken == IF r.threw THEN {provs[r.done + 1]} \cap DOMAIN ch ELSE {}
    IN [p \in Providers |->
          IF p \in full /\ WellShaped(data, ch[p], p)
          THEN [h[p] EXCEPT !.samples = LastN(Append(@, data.time), cap + 1)]
          ELSE IF p \in full \cup broken THEN [h[p] EXCEPT !.clean = FALSE]
          ELSE h[p]]

\* ------------------------------------------------------------------------
\* Actions: one per handler
\* ------------------------------------------------------------------------
\* the poll chains alive: every request in flight and every pending timer
\* leads to at most one further get_data
Chains(fl, pend) == BagCardinality(fl) + Cardinality(pend)

ApplySync(s) ==
    /\ Chains(s.inflight, pending) <= MaxChains
    /\ charts' = s.charts
    /\ containers' = s.containers
    /\ inflight' = s.inflight
    /\ hist' = IF s.ran THEN [p \in Providers |-> EmptyHist] ELSE hist
    /\ issued' = s.ran

\* click on input[name='statusCharting']
ClickToggle ==
    LET c == click(toggle, appliances, selected, charts, containers, inflight)
    IN /\ toggle' = c.toggle
       /\ ApplySync(c.sync)
       /\ orphans' = 0
       /\ failed' = FALSE
       /\ UNCHANGED <<boxes, fleet, clock, datapoints, appliances, selected, timeout, pending>>

\* change of a provider checkbox: publishes startCharting
ChangeCheckbox(p) ==
    /\ selected' = IF p \in selected THEN selected \ {p} ELSE selected \cup {p}
    /\ ApplySync(initialize_all(toggle, appliances, selected', charts, containers, inflight))
    /\ failed' = FALSE
    /\ UNCHANGED <<boxes, fleet, clock, datapoints, toggle, appliances, timeout, pending, orphans>>

\* the appliance list changes (a device is added at the end, or the last
\* one is removed) and modifyAppliances is published
ModifyAppliances(roster) ==
    /\ roster \in Rosters
    /\ Len(roster) <= fleet
    /\ \/ Len(roster) = Len(appliances) + 1
       \/ Len(roster) = Len(appliances) - 1
    /\ appliances' = roster
    /\ ApplySync(initialize_all(toggle, roster, selected, charts, containers, inflight))
    /\ failed' = FALSE
    /\ UNCHANGED <<boxes, fleet, clock, datapoints, toggle, selected, timeout, pending, orphans>>

\* a pending timer fires: get_data
TimerFire(id) ==
    /\ id \in pending
    /\ pending' = pending \ {id}
    /\ inflight' = get_data(inflight, appliances, selected)
    /\ failed' = FALSE
    /\ issued' = (toggle = "Stop")
    /\ UNCHANGED <<boxes, fleet, clock, datapoints, toggle, appliances, selected, charts, containers,
                   timeout, hist, orphans>>

\* the answer to a request in flight arrives: success callback
Answer(req, data) ==
    /\ BagIn(req, inflight)
    /\ LET r == success_callback(toggle, selected, charts, pending, timeout, data, datapoints)
       IN /\ \A p \in DOMAIN r.charts : Len(r.charts[p].labels) <= datapoints + MaxOverrun
          /\ charts' = r.charts
          /\ pending' = r.pending
          /\ timeout' = r.timeout
    /\ inflight' = inflight (-) SetToBag({req})
    /\ orphans' = IF toggle = "Start" THEN Min(orphans + 1, 2) ELSE orphans
    /\ failed' = FALSE
    /\ issued' = FALSE
    /\ UNCHANGED <<boxes, fleet, datapoints, toggle, appliances, selected, containers>>

FetchSuccess(req, data) ==
    /\ data \in Responses(req, {clock})
    /\ Answer(req, data)
    /\ UNCHANGED <<hist, clock>>

\* a request in flight fails (transport error or error status)
FetchFailure(req) ==
    /\ BagIn(req, inflight)
    /\ LET r == error_callback(inflight (-) SetToBag({req}), pending, timeout, appliances, selected)
       IN /\ inflight' = r.inflight
          /\ pending' = r.pending
          /\ timeout' = r.timeout
    /\ failed' = TRUE
    /\ issued' = FALSE
    /\ UNCHANGED <<boxes, fleet, clock, datapoints, toggle, appliances, selected, charts, containers,
                   hist, orphans>>

Next ==
    \/ ClickToggle
    \/ \E p \in boxes : ChangeCheckbox(p)
    \/ \E roster \in Rosters : ModifyAppliances(roster)
    \/ \E id \in TimerIds : TimerFire(id)
    \/ \E req \in BagToSet(inflight) : \E data \in Responses(req, {clock}) : FetchSuccess(req, data)
    \/ \E req \in BagToSet(inflight) : FetchFailure(req)

Spec == Init /\ [][Next]_vars

\* ------------------------------------------------------------------------
\* The Series specification: steady polling from the state right after the
\* first sync, for every cap and with distinguishable timestamps; the
\* history of the commits is recorded in hist
\* ------------------------------------------------------------------------
SeriesInit ==
    /\ \E page \in Pages : boxes = page.boxes /\ fleet = page.fleet
    /\ clock = 1
    /\ datapoints \in 1..MaxCap
    /\ toggle = "Stop"
    /\ appliances \in {r \in Rosters : 1 <= Len(r) /\ Len(r) <= fleet}
    /\ selected \in (SUBSET boxes) \ {{}}
    /\ charts = [p \in selected |-> initialize_chart(p, appliances)]
    /\ containers = selected
    /\ timeout = undefined
    /\ pending = {}
    /\ inflight = get_data(EmptyBag, appliances, selected)
    /\ hist = [p \in Providers |-> EmptyHist]
    /\ orphans = 0
    /\ failed = FALSE
    /\ issued = TRUE

SeriesCommit(req, data) ==
    /\ clock \in Times
    /\ data \in Responses(req, {clock})
    /\ clock' = clock + 1
    /\ Answer(req, data)
    /\ hist' = CommitHist(hist, data, selected, charts,
                          add_data(data, selected, charts, datapoints), datapoints)

SeriesNext ==
    \/ \E id \in TimerIds : TimerFire(id)
    \/ \E req \in BagToSet(inflight) : \E data \in Responses(req, {clock}) : SeriesCommit(req, data)
    \/ \E roster \in Rosters : ModifyAppliances(roster)

SeriesSpec == SeriesInit /\ [][SeriesNext]_vars

\* ------------------------------------------------------------------------
\* The Load specification: the page from its load on, with no click on the
\* statusCharting button, so that the button keeps the value startonload
\* gave it
\* ------------------------------------------------------------------------
LoadNext ==
    \/ \E p \in boxes : ChangeCheckbox(p)
    \/ \E roster \in Rosters : ModifyAppliances(roster)
    \/ \E id \in TimerIds : TimerFire(id)
    \/ \E req \in BagToSet(inflight) : \E data \in Responses(req, {clock}) : FetchSuccess(req, data)
    \/ \E req \in BagToSet(inflight) : FetchFailure(req)

LoadSpec == Init /\ [][LoadNext]_vars

\* ------------------------------------------------------------------------
\* The Live specification: the browser fires every pending timer, and every
\* request in flight gets its answer or fails; explored on the page with
\* one provider checkbox
\* ------------------------------------------------------------------------
TimerStep == \E id \in TimerIds : TimerFire(id)

CompletionStep ==
    \/ \E req \in BagToSet(inflight) : \E data \in Responses(req, {clock}) : FetchSuccess(req, data)
    \/ \E req \in BagToSet(inflight) : FetchFailure(req)

\* the page with one provider checkbox
LiveInit == Init /\ Cardinality(boxes) = 1

LiveSpec == LiveInit /\ [][Next]_vars /\ WF_vars(TimerStep) /\ WF_vars(CompletionStep)

\* ------------------------------------------------------------------------
\* The Poll specification: a server that answers every request, with a
\* value list for every provider asked for
\* ------------------------------------------------------------------------
CompleteSuccess(req, data) ==
    /\ DOMAIN data.byProvider = Range(req.providers)
    /\ FetchSuccess(req, data)

CompleteStep ==
    \E req \in BagToSet(inflight) : \E data \in Responses(req, {clock}) : CompleteSuccess(req, data)

PollNext ==
    \/ ClickToggle
    \/ \E p \in boxes : ChangeCheckbox(p)
    \/ \E roster \in Rosters : ModifyAppliances(roster)
    \/ \E id \in TimerIds : TimerFire(id)
    \/ \E req \in BagToSet(inflight) : \E data \in Responses(req, {clock}) : CompleteSuccess(req, data)

PollSpec == LiveInit /\ [][PollNext]_vars /\ WF_vars(TimerStep) /\ WF_vars(CompleteStep)

\* ------------------------------------------------------------------------
\* Properties
\* ------------------------------------------------------------------------

\* the step is the click handler run in the Start state
StartClick == toggle = "Start" /\ ClickToggle

\* the step is a success callback
SuccessStep ==
    \E req \in BagToSet(inflight) : \E data \in Responses(req, {clock}) : FetchSuccess(req, data)

\* the step is the handling of a failed request
FailureStep == \E req \in BagToSet(inflight) : FetchFailure(req)

\* the step runs initialize_all past its two early returns
SyncRuns ==
    /\ toggle = "Stop"
    /\ appliances' # <<>>
    /\ \/ \E p \in boxes : ChangeCheckbox(p)
       \/ \E roster \in Rosters : ModifyAppliances(roster)

\* C1: after any sequence of start, stop, selection-change, roster-change,
\* timer, fetch-success and fetch-failure events at most one reschedule
\* timer is pending.
C1_AtMostOnePendingTimer == Cardinality(pending) <= 1

\* a timer set by a success callback is pending while a second poll chain
\* has its request in flight
C1_Witness == Cardinality(pending) = 1 /\ timeout \in pending /\ inflight # EmptyBag

\* C2: a click on the button in the Start state with a non-empty roster
\* leaves the state Monitoring, a chart registered for every selected
\* provider and a fetch issued.
C2_StartClickStartsPolling ==
    [][(StartClick /\ appliances # <<>>)
         => /\ toggle' = "Stop"
            /\ DOMAIN charts' = selected
            /\ BagCardinality(inflight') = BagCardinality(inflight) + 1]_vars

\* C3: a success callback that runs while the state is Idle creates no
\* pending timer.
C3_NoRescheduleWhileIdle ==
    [][(SuccessStep /\ toggle = "Start")
         => (pending' = pending /\ timeout' = timeout)]_vars

\* a success callback has run in the Idle state after a timer had been set,
\* and no timer is pending
C3_Witness == toggle = "Start" /\ orphans >= 1 /\ timeout # undefined /\ pending = {}

\* C4: after a stop that no start follows at most one further response
\* reaches the success callback.
C4_AtMostOneOrphan == toggle = "Start" => orphans <= 1

\* C5: a failed fetch appends nothing to any Series, schedules no timer and
\* issues no fetch; once no chain is left a fetch is issued only by a
\* start click, a selection change or a roster change.
C5_FailureIsTerminal ==
    [][/\ FailureStep
          => /\ charts' = charts
             /\ pending' = pending
             /\ timeout' = timeout
             /\ BagCardinality(inflight') = BagCardinality(inflight) - 1
       /\ (inflight = EmptyBag /\ pending = {} /\ inflight' # EmptyBag)
          => \/ ClickToggle
             \/ \E p \in boxes : ChangeCheckbox(p)
             \/ \E roster \in Rosters : ModifyAppliances(roster)]_vars

\* the only poll chain has died of a failure while Monitoring
C5_Witness ==
    /\ failed
    /\ toggle = "Stop"
    /\ inflight = EmptyBag
    /\ pending = {}
    /\ charts # <<>>

\* C6: no fetch request is issued for an empty roster.
C6_NoFetchForEmptyRoster == \A req \in BagToSet(inflight) : req.appliances # <<>>

\* C7: after each commit of a sample to a Series with cap datapoints the
\* Series holds at most datapoints samples, and they are the most recent
\* min(count, datapoints) committed ones in commit order; the samples are
\* those of the chart's own shape.
C7_SeriesKeepsMostRecent ==
    \A p \in DOMAIN charts :
        hist[p].clean =>
            LET k == Min(Len(hist[p].samples), datapoints)
            IN /\ Len(charts[p].labels) <= datapoints
               /\ charts[p].labels = LastN(hist[p].samples, k)
               /\ \A i \in 1..Len(charts[p].datasets) :
                     charts[p].datasets[i].data = [j \in 1..k |-> charts[p].datasets[i].label]

\* a Series with a cap of two or more has evicted, and holds two samples
\* that differ
C7_Witness ==
    \E p \in DOMAIN charts :
        /\ hist[p].clean
        /\ datapoints >= 2
        /\ Len(hist[p].samples) = datapoints + 1
        /\ charts[p].labels[1] # charts[p].labels[2]

\* C8: a second run of initialize_all with the selection and the roster of
\* the run before destroys no chart, creates none and discards no Series.
C8_SyncIdempotent ==
    [][(/\ SyncRuns
        /\ DOMAIN charts = selected'
        /\ \A p \in DOMAIN charts : devs(charts[p]) = appliances')
         => charts' = charts]_vars

\* C9: a response that lacks data for a selected provider, or has another
\* device count, changes no Series and schedules no timer.
C9_MalformedBatchDropped ==
    [][\A req \in BagToSet(inflight) : \A data \in Responses(req, {clock}) :
          (Malformed(data, selected, charts) /\ FetchSuccess(req, data))
            => (charts' = charts /\ pending' = pending /\ timeout' = timeout)]_vars

\* C10: a response to a request issued for another roster than the one a
\* chart was built with is not committed to that chart, even when it
\* carries every provider asked for.
C10_NoStaleShapedSample ==
    [][\A req \in BagToSet(inflight) : \A data \in Responses(req, {clock}) :
          (DOMAIN data.byProvider = Range(req.providers) /\ FetchSuccess(req, data))
            => \A p \in DOMAIN charts :
                  req.appliances # devs(charts[p]) => charts'[p] = charts[p]]_vars

\* the step is the handler of a roster change
RosterStep == \E roster \in Rosters : ModifyAppliances(roster)

\* the step is the handler of a checkbox change
CheckboxStep == \E p \in boxes : ChangeCheckbox(p)

\* C11: the number of poll chains alive, requests in flight plus pending
\* timers, is at most one.
C11_AtMostOneChain == Chains(inflight, pending) <= 1

\* C12: the providers with a chart in window.charts are those selected when
\* initialize_all last ran past its early returns: none before the first
\* such run, the selection of the run after it, and unchanged by every
\* other handler.
C12_ChartsAreLastSync ==
    /\ DOMAIN charts = {}
    /\ [][IF SyncRuns THEN DOMAIN charts' = selected'
                      ELSE DOMAIN charts' = DOMAIN charts]_vars

\* the selection has changed since the last run of initialize_all, and the
\* charts are still those of that run
C12_Witness == charts # <<>> /\ selected # DOMAIN charts /\ selected # {}

\* C13: after a checkbox change, with appliances present, the charts are
\* those of the selected providers, whatever the button reads.
C13_SelectionChangeSyncs ==
    [][(appliances # <<>> /\ CheckboxStep) => DOMAIN charts' = selected']_vars

\* C14: after a roster change handled while the button reads "Stop" every
\* selected provider has a chart with one empty dataset per appliance of
\* the new roster, in its order, and no labels.
C14_RosterChangeRebuilds ==
    [][(toggle = "Stop" /\ RosterStep)
         => \A p \in selected :
               /\ p \in DOMAIN charts'
               /\ charts'[p] = initialize_chart(p, appliances')]_vars

\* C15: whenever the success callback runs add_data, every provider selected
\* at that moment has a chart in window.charts.
C15_AppendOnlyToLiveChart ==
    [][(toggle = "Stop" /\ SuccessStep) => selected \subseteq DOMAIN charts]_vars

\* C16: a checkbox change handled while polling, with the roster the charts
\* were built with, leaves the chart of every provider selected before and
\* after it as it was.
C16_SelectionChangeKeepsCommon ==
    [][(toggle = "Stop" /\ appliances # <<>> /\ CheckboxStep)
         => \A q \in (selected \cap selected') \cap DOMAIN charts :
               devs(charts[q]) = appliances => charts'[q] = charts[q]]_vars

\* the step is the click handler run while the button reads "Stop"
StopClick == toggle = "Stop" /\ ClickToggle

\* C19: a stop click sets the button to "Start" and leaves the charts with
\* their Series, the containers, the pending timer, window.timeout and the
\* requests in flight as they were.
C19_StopClickOnlyFlipsToggle ==
    [][StopClick
         => /\ toggle' = "Start"
            /\ charts' = charts
            /\ containers' = containers
            /\ pending' = pending
            /\ timeout' = timeout
            /\ inflight' = inflight
            /\ selected' = selected
            /\ appliances' = appliances]_vars

\* the button reads "Start" since the last click, with a timer pending, a
\* request in flight and a chart that holds a sample
C19_Witness ==
    /\ toggle = "Start"
    /\ orphans = 0
    /\ pending # {}
    /\ inflight # EmptyBag
    /\ \E p \in DOMAIN charts : charts[p].labels # <<>>

\* C20: with no click on the button, startonload true means the button
\* reads "Stop" and the change from the empty roster to a non-empty one
\* builds a chart per selected provider and issues a fetch; startonload
\* false means the button reads "Start" and that change builds nothing and
\* issues no fetch.
C20_StartOnLoad ==
    [][\A startonload \in BOOLEAN :
          (toggle = initialState(startonload) /\ appliances = <<>> /\ RosterStep)
            => IF startonload
               THEN /\ toggle = "Stop"
                    /\ charts' = [p \in selected |-> initialize_chart(p, appliances')]
                    /\ inflight' = inflight (+) SetToBag({status_request(appliances', selected)})
               ELSE /\ toggle = "Start"
                    /\ charts' = charts
                    /\ inflight' = inflight]_vars

\* the first appliance has been added with the button reading "Stop" from
\* the load on: the charts are built and the first fetch is in flight
C20_Witness ==
    /\ toggle = "Stop"
    /\ appliances # <<>>
    /\ selected # {}
    /\ charts = [p \in selected |-> initialize_chart(p, appliances)]
    /\ inflight = SetToBag({status_request(appliances, selected)})
    /\ timeout = undefined

\* no timer is pending and no request is in flight
Quiescent == inflight = EmptyBag /\ pending = {}

\* C17: when from some point on the button reads "Start" for good, then,
\* every pending timer firing and every request completing, from some
\* point on no timer is pending and no request is in flight.
C17_QuiescentAfterStop == <>[](toggle = "Start") => <>[]Quiescent

\* the poll chains alive at the stop have died: the button reads "Start",
\* a response was ignored, and nothing is pending or in flight
C17_Witness ==
    /\ toggle = "Start"
    /\ orphans >= 1
    /\ Quiescent
    /\ charts # <<>>

\* C18: from the moment a handler has issued a request with the button
\* reading "Stop", if the button keeps reading "Stop" and the selection
\* and the roster stay as they are, a
\* request is in flight again and again (the server of PollSpec answers
\* every request in full).
C18_PollingNeverStops ==
    \A S \in SUBSET Providers : \A R \in Rosters :
        []((/\ toggle = "Stop"
            /\ issued
            /\ [](toggle = "Stop" /\ selected = S /\ appliances = R))
              => []<>(inflight # EmptyBag))

\* C21: a request issued by any handler carries the roster, in its order,
\* and the checked providers of the moment it is issued; a handler issues
\* at most one request.
C21_RequestIsCurrent ==
    [][\A req \in BagToSet(inflight') :
          CopiesIn(req, inflight') > CopiesIn(req, inflight)
            => /\ req = [appliances |-> appliances',
                         providers |-> get_selected_providers(selected')]
               /\ CopiesIn(req, inflight') = CopiesIn(req, inflight) + 1]_vars

\* a timer of a running chain has issued the request in flight, and it
\* names a roster other than the one the charts were built with
C21_Witness ==
    /\ issued
    /\ timeout # undefined
    /\ pending = {}
    /\ BagIn([appliances |-> appliances, providers |-> get_selected_providers(selected)], inflight)
    /\ appliances # <<>>
    /\ \E p \in DOMAIN charts : devs(charts[p]) # appliances

\* C22: every chart has as many labels as each of its datasets has values.
C22_LabelsAlignedWithData ==
    \A p \in DOMAIN charts :
        \A i \in 1..Len(charts[p].datasets) :
            Len(charts[p].datasets[i].data) = Len(charts[p].labels)

\* C23: while the button reads "Start" neither a success callback, nor a
\* failed request, a checkbox change, a roster change or a timer changes
\* a chart, its Series or the set of charts.
C23_NoChartChangeWhileIdle ==
    [][(/\ toggle = "Start"
        /\ \/ SuccessStep
           \/ FailureStep
           \/ CheckboxStep
           \/ RosterStep
           \/ TimerStep)
         => (charts' = charts /\ containers' = containers)]_vars

\* the button reads "Start", a response has been ignored and the selection
\* has changed, and a chart still holds the sample it held
C23_Witness ==
    /\ toggle = "Start"
    /\ orphans >= 1
    /\ selected # DOMAIN charts
    /\ \E p \in DOMAIN charts : charts[p].labels # <<>>
====
